---- MODULE Spec2Model ----
(***************************************************************************)
(* Inventory & procurement reconciliation of civil-erp-back: the inventory *)
(* ledger (controllers/inventory_controller.py), the PO/GRN matcher and    *)
(* its ledger sync (controllers/procurement_controller.py) and the daily   *)
(* stock ledger of the progress reports (controllers/project_controller.py)*)
(*                                                                         *)
(* Quantities are whole units.  Money is counted in thousandths of the     *)
(* currency unit, so that round(x, 2) of the procurement controller is a   *)
(* rounding to the nearest ten and not the identity.  Report dates are the *)
(* ISO date strings of the code, modelled by their rank 1..MaxDate (the    *)
(* store compares them as strings, and ISO dates sort as their ranks do).  *)
(* Documents of a collection are kept in insertion order, the order in     *)
(* which find_one meets them; uuid4 identifiers are the position of the    *)
(* document in its collection.                                             *)
(***************************************************************************)
EXTENDS Integers, Sequences, FiniteSets, TLC

\* ---------------------------------------------------------------- bounds
MaxItems == 2      \* inventory documents
MaxQty   == 3      \* |quantity| of a ledger entry
MaxGrns  == 2      \* stored goods receipts
MaxDprs  == 3      \* stored daily progress reports
MaxDate  == 3      \* distinct report dates

None     == "None"
Projects == {"P1", "P2"}

VARIABLES inventory, grns, dprs, last, inflight, audit_logs, response
vars == <<inventory, grns, dprs, last, inflight, audit_logs, response>>

\* ------------------------------------------------------------- utilities
Max(a, b) == IF a >= b THEN a ELSE b
Abs(a)    == IF a >= 0 THEN a ELSE -a

Range(s) == {s[i] : i \in 1..Len(s)}

\* Sequences over S of length lo..hi.
SeqsOf(S, lo, hi) == UNION {[1..n -> S] : n \in lo..hi}

\* An optional request field: <<>> when absent, <<v>> when given.
Opt(S) == {<<>>} \cup {<<v>> : v \in S}
Get(opt, default) == IF opt = <<>> THEN default ELSE opt[1]

\* str.lower() restricted to the item names of the model; the store's
\* case-insensitive regex match compares names through it.
Lower(name) ==
    CASE name = "Cement" -> "cement"
      [] name = "Steel"  -> "steel"
      [] OTHER           -> name

\* The response of the last handled request: the handler, its outcome, an
\* argument that names the variant of the request, the numbers the response
\* reports, and the position of the request line the handler stopped at.
Response(op, result, arg, info, at) ==
    [op |-> op, result |-> result, arg |-> arg, info |-> info, at |-> at]

\* A controller called on its own: no route has answered and none has
\* written to the audit log.
Direct == UNCHANGED <<audit_logs, response>>

\* ------------------------------------------------- stock status classifier
\* The classifier with a strict comparison against the minimum.
StatusBelowMinimum(quantity, minimum_quantity) ==
    IF quantity <= 0 THEN "out_of_stock"
    ELSE IF minimum_quantity > 0 /\ quantity < minimum_quantity THEN "low_stock"
    ELSE "in_stock"

\* The classifier that takes only a negative quantity for out of stock.
StatusNegativeOut(qty, min_qty) ==
    IF qty < 0 THEN "out_of_stock"
    ELSE IF min_qty > 0 /\ qty <= min_qty THEN "low_stock"
    ELSE "in_stock"

_compute_status(quantity, minimum_quantity) ==
    IF quantity <= 0 THEN "out_of_stock"
    ELSE IF minimum_quantity > 0 /\ quantity <= minimum_quantity THEN "low_stock"
    ELSE "in_stock"

_inventory_status(qty, min_qty) ==
    IF qty <= 0 THEN "out_of_stock"
    ELSE IF min_qty > 0 /\ qty <= min_qty THEN "low_stock"
    ELSE "in_stock"

_inv_status(qty, min_qty) ==
    IF qty <= 0 THEN "out_of_stock"
    ELSE IF min_qty > 0 /\ qty <= min_qty THEN "low_stock"
    ELSE "in_stock"

\* round(x, 2) on an amount in thousandths: to the nearest ten, a tie to the
\* even hundredth.
Round2(v) ==
    LET r == v % 10
        lo == v - r
    IN  IF r < 5 THEN lo
        ELSE IF r > 5 THEN lo + 10
        ELSE IF (lo \div 10) % 2 = 0 THEN lo ELSE lo + 10

\* ------------------------------------------------------- inventory ledger
\* An InventoryItem document (the fields the reconciliation reads or writes).
InventoryItem(id, project_id, item_name, quantity, minimum_quantity, unit_price) ==
    [id |-> id, project_id |-> project_id, item_name |-> item_name,
     quantity |-> quantity, minimum_quantity |-> minimum_quantity,
     unit_price |-> unit_price, total_value |-> 0, status |-> "in_stock",
     unit |-> None, vendor_id |-> None, equipment_status |-> None]

\* db.inventory.find_one({"id": item_id}): the position of the document, 0
\* when there is none.
FindItem(inv, item_id) == IF item_id \in 1..Len(inv) THEN item_id ELSE 0

\* The bound of the model on a ledger: at most MaxItems documents, every
\* quantity within -MaxQty..MaxQty.
WithinBounds(inv) ==
    /\ Len(inv) <= MaxItems
    /\ \A i \in 1..Len(inv) : inv[i].quantity \in -MaxQty..MaxQty

create_item(data) ==
    LET item == InventoryItem(Len(inventory) + 1, data.project_id, data.item_name,
                              data.quantity, data.minimum_quantity, data.unit_price)
        made == [item EXCEPT !.unit = data.unit,
                             !.total_value = item.quantity * item.unit_price,
                             !.status = _compute_status(item.quantity, item.minimum_quantity)]
    IN  /\ WithinBounds(Append(inventory, made))
        /\ inventory' = Append(inventory, made)
        \* the controller's outcome: the item is on file when it returns
        /\ last' = Response("create_item", "ok", "", <<>>, 0)
        /\ UNCHANGED <<inflight, grns, dprs>>

update_item(item_id, data) ==
    LET k == FindItem(inventory, item_id) IN
    IF k = 0
    THEN /\ last' = Response("update_item", "not_found", "", <<>>, 0)
         /\ UNCHANGED <<inflight, inventory, grns, dprs>>
    ELSE LET existing == inventory[k]
             new_qty   == Get(data.quantity, existing.quantity)
             new_min   == Get(data.minimum_quantity, existing.minimum_quantity)
             new_price == Get(data.unit_price, existing.unit_price)
             updated   == [existing EXCEPT
                              !.item_name = Get(data.item_name, existing.item_name),
                              !.quantity = new_qty,
                              !.minimum_quantity = new_min,
                              !.unit_price = new_price,
                              !.total_value = new_qty * new_price,
                              !.status = _compute_status(new_qty, new_min)]
         IN  /\ WithinBounds([inventory EXCEPT ![k] = updated])
             /\ inventory' = [inventory EXCEPT ![k] = updated]
             /\ last' = Response("update_item", "ok", "", <<>>, 0)
             /\ UNCHANGED <<inflight, grns, dprs>>

\* The quantity update_quantity computes; the second component tells whether
\* the request is refused ("Quantity cannot go below zero").
NewQuantity(existing_qty, data) ==
    IF data.operation = "add" THEN <<existing_qty + data.quantity, FALSE>>
    ELSE IF data.operation = "subtract"
         THEN <<existing_qty - data.quantity, existing_qty - data.quantity < 0>>
    ELSE <<data.quantity, FALSE>>

update_quantity(item_id, data) ==
    LET k == FindItem(inventory, item_id) IN
    IF k = 0
    THEN /\ last' = Response("update_quantity", "not_found", data.operation, <<>>, 0)
         /\ UNCHANGED <<inflight, inventory, grns, dprs>>
    ELSE LET existing == inventory[k]
             nq       == NewQuantity(existing.quantity, data)
             new_qty  == nq[1]
             updated  == [existing EXCEPT
                              !.quantity = new_qty,
                              !.total_value = new_qty * existing.unit_price,
                              !.status = _compute_status(new_qty, existing.minimum_quantity)]
         IN  IF nq[2]
             THEN /\ last' = Response("update_quantity", "below_zero", data.operation, <<>>, 0)
                  /\ UNCHANGED <<inflight, inventory, grns, dprs>>
             ELSE /\ WithinBounds([inventory EXCEPT ![k] = updated])
                  /\ inventory' = [inventory EXCEPT ![k] = updated]
                  /\ last' = Response("update_quantity", "ok", data.operation, <<>>, 0)
                  /\ UNCHANGED <<inflight, grns, dprs>>

\* transfer_material with the project check ahead of the stock check.
TransferCheckProjectFirst(inv, k, data) ==
    IF k = 0 THEN "not_found"
    ELSE IF data.quantity <= 0 THEN "invalid_quantity"
    ELSE IF inv[k].project_id = data.to_project_id THEN "same_project"
    ELSE IF inv[k].quantity < data.quantity THEN "insufficient_stock"
    ELSE "ok"

\* transfer_material without its "Insufficient stock" check.
TransferCheckNoStock(inv, k, data) ==
    IF k = 0 THEN "not_found"
    ELSE IF data.quantity <= 0 THEN "invalid_quantity"
    ELSE IF inv[k].project_id = data.to_project_id THEN "same_project"
    ELSE "ok"

\* The preconditions of transfer_material, in the order the handler checks
\* them; k is the position of the source document (0: none).
TransferCheck(inv, k, data) ==
    IF k = 0 THEN "not_found"
    ELSE IF data.quantity <= 0 THEN "invalid_quantity"
    ELSE IF inv[k].quantity < data.quantity THEN "insufficient_stock"
    ELSE IF inv[k].project_id = data.to_project_id THEN "same_project"
    ELSE "ok"

\* "Deduct from source": the source document after the first update_one.
DeductSource(inv, k, quantity) ==
    LET source == inv[k]
        new_src_qty == source.quantity - quantity
    IN  [inv EXCEPT ![k] = [source EXCEPT
            !.quantity = new_src_qty,
            !.total_value = new_src_qty * source.unit_price,
            !.status = _compute_status(new_src_qty, source.minimum_quantity)]]

\* The destination document is read after the source has been written.
AddToDestination(inv, d, quantity) ==
    LET dest == inv[d]
        new_dest_qty == dest.quantity + quantity
    IN  [inv EXCEPT ![d] = [dest EXCEPT
            !.quantity = new_dest_qty,
            !.total_value = new_dest_qty * dest.unit_price,
            !.status = _compute_status(new_dest_qty, dest.minimum_quantity)]]

\* No destination item selected: a new document in the destination project.
NewTransferredItem(inv, source, data) ==
    LET new_item == InventoryItem(Len(inv) + 1, data.to_project_id, source.item_name,
                                  data.quantity, source.minimum_quantity, source.unit_price)
    IN  [new_item EXCEPT
            !.unit = source.unit,
            !.total_value = data.quantity * source.unit_price,
            !.status = _compute_status(data.quantity, new_item.minimum_quantity)]

transfer_material(data) ==
    LET k     == FindItem(inventory, data.from_item_id)
        check == TransferCheck(inventory, k, data)
    IN  IF check # "ok"
        THEN /\ last' = Response("transfer_material", check, data.to_project_id,
                                 IF check = "insufficient_stock"
                                 THEN <<inventory[k].quantity, inventory[k].unit>>
                                 ELSE <<>>, 0)
             /\ UNCHANGED <<inflight, inventory, grns, dprs>>
        ELSE LET source   == inventory[k]
                 deducted == DeductSource(inventory, k, data.quantity)
             IN  IF data.to_item_id # <<>>
                 THEN LET d == FindItem(deducted, data.to_item_id[1]) IN
                      IF d = 0
                      THEN /\ inventory' = deducted
                           /\ last' = Response("transfer_material", "destination_not_found",
                                               "", <<>>, 0)
                           /\ UNCHANGED <<inflight, grns, dprs>>
                      ELSE /\ WithinBounds(AddToDestination(deducted, d, data.quantity))
                           /\ inventory' = AddToDestination(deducted, d, data.quantity)
                           /\ last' = Response("transfer_material", "ok", "",
                                               <<data.quantity>>, 0)
                           /\ UNCHANGED <<inflight, grns, dprs>>
                 ELSE /\ Len(deducted) < MaxItems
                      /\ inventory' = Append(deducted,
                                             NewTransferredItem(deducted, source, data))
                      /\ last' = Response("transfer_material", "ok", "",
                                          <<data.quantity>>, 0)
                      /\ UNCHANGED <<inflight, grns, dprs>>

\* ------------------------------------------------------- PO / GRN matcher
\* The purchase orders on file (they are created upstream of the matcher and
\* their line items never change).  Rates are in thousandths.
purchase_orders ==
    [po \in {"po1"} |->
        [id |-> "po1", project_id |-> "P1", vendor_id |-> "V1",
         items |-> << [description |-> "Cement", unit |-> "Bags",
                       quantity |-> 2, rate |-> 12],
                      [description |-> "steel", unit |-> "Kg",
                       quantity |-> 1, rate |-> 0] >>]]

\* Python's list[i]: the element a valid index names, a negative index
\* counting from the end.  IndexValid tells whether list[i] raises IndexError.
IndexValid(list, i) == -Len(list) <= i /\ i < Len(list)
PyAt(list, i) == IF i >= 0 THEN list[i + 1] ELSE list[Len(list) + i + 1]

RECURSIVE SumReceived(_, _, _)
\* Over the lines items[n..], the sum of received_quantity of those whose
\* po_item_index is equal to po_item_index.
SumReceived(items, n, po_item_index) ==
    IF n > Len(items) THEN 0
    ELSE (IF items[n].po_item_index = po_item_index
          THEN items[n].received_quantity ELSE 0)
         + SumReceived(items, n + 1, po_item_index)

RECURSIVE TotalReceived(_, _, _, _)
\* total_received of create_grn: over the stored GRNs g[n..] of the order.
TotalReceived(g, n, po_id, po_item_index) ==
    IF n > Len(g) THEN 0
    ELSE (IF g[n].po_id = po_id THEN SumReceived(g[n].items, 1, po_item_index) ELSE 0)
         + TotalReceived(g, n + 1, po_id, po_item_index)

RECURSIVE GrnCheck(_, _, _, _)
\* The validation loop of create_grn from request line n on: the first line
\* that raises decides the response.
GrnCheck(g, po, items, n) ==
    IF n > Len(items) THEN [result |-> "ok", at |-> 0, info |-> <<>>]
    ELSE LET po_item_index == items[n].po_item_index IN
         IF po_item_index >= Len(po.items)
         THEN [result |-> "invalid_index", at |-> n, info |-> <<po_item_index>>]
         ELSE IF ~IndexValid(po.items, po_item_index)
         THEN [result |-> "index_error", at |-> n, info |-> <<>>]
         ELSE LET po_quantity    == PyAt(po.items, po_item_index).quantity
                  total_received == TotalReceived(g, 1, po.id, po_item_index)
                  new_total      == total_received + items[n].received_quantity
              IN  IF new_total > po_quantity
                  THEN [result |-> "over_receipt", at |-> n,
                        info |-> <<po_quantity, total_received,
                                   po_quantity - total_received>>]
                  ELSE GrnCheck(g, po, items, n + 1)

\* The lookup of the ledger sync with a case-sensitive match.
FindByNameExact(inv, project_id, item_name) ==
    LET hits == {i \in 1..Len(inv) : /\ inv[i].project_id = project_id
                                     /\ inv[i].item_name = item_name}
    IN  IF hits = {} THEN 0 ELSE CHOOSE i \in hits : \A j \in hits : i <= j

\* db.inventory.find_one by project and case-insensitive name: the first
\* document that matches, 0 when none does.
FindByName(inv, project_id, item_name) ==
    LET hits == {i \in 1..Len(inv) : /\ inv[i].project_id = project_id
                                     /\ Lower(inv[i].item_name) = Lower(item_name)}
    IN  IF hits = {} THEN 0 ELSE CHOOSE i \in hits : \A j \in hits : i <= j

\* The merge branch of the ledger sync.
MergeReceipt(existing, received_qty, unit_price, vendor_id) ==
    LET new_qty   == existing.quantity + received_qty
        min_qty   == existing.minimum_quantity
        eff_price == IF existing.unit_price # 0 THEN existing.unit_price ELSE unit_price
    IN  [existing EXCEPT
            !.quantity = new_qty,
            !.total_value = Round2(new_qty * eff_price),
            !.status = _inventory_status(new_qty, min_qty),
            !.vendor_id = vendor_id]

\* The new-item branch of the ledger sync.
ReceivedItem(id, project_id, item_name, unit, received_qty, unit_price, vendor_id) ==
    [InventoryItem(id, project_id, item_name, received_qty, 0, unit_price) EXCEPT
        !.unit = unit,
        !.total_value = Round2(received_qty * unit_price),
        !.vendor_id = vendor_id,
        !.status = "in_stock"]

RECURSIVE SyncLedger(_, _, _, _)
\* "Auto-sync inventory stock": the lines items[n..] applied one after the
\* other, each reading the ledger the earlier ones have written.
SyncLedger(inv, po, items, n) ==
    IF n > Len(items) THEN inv
    ELSE LET po_item      == PyAt(po.items, items[n].po_item_index)
             received_qty == items[n].received_quantity
             e            == FindByName(inv, po.project_id, po_item.description)
             next ==
                IF e # 0
                THEN [inv EXCEPT ![e] = MergeReceipt(inv[e], received_qty,
                                                     po_item.rate, po.vendor_id)]
                ELSE Append(inv, ReceivedItem(Len(inv) + 1, po.project_id,
                                              po_item.description, po_item.unit,
                                              received_qty,
                                              po_item.rate, po.vendor_id))
         IN  SyncLedger(next, po, items, n + 1)

\* create_grn with its insert moved ahead of the validation loop.
StoredGrnsEarly(g, grn_data, result) ==
    Append(g, [po_id |-> grn_data.po_id, grn_number |-> Len(g) + 1,
               items |-> grn_data.items])

\* The GRN collection after create_grn: the insert comes after the whole
\* validation loop, so a request that raised there has stored nothing.
StoredGrns(g, grn_data, result) ==
    IF result = "ok"
    THEN Append(g, [po_id |-> grn_data.po_id, grn_number |-> Len(g) + 1,
                    items |-> grn_data.items])
    ELSE g

\* The ledger after create_grn: synced only once the GRN has been stored.
SyncedLedger(inv, po, grn_data, result) ==
    IF result = "ok" THEN SyncLedger(inv, po, grn_data.items, 1) ELSE inv

create_grn(grn_data) ==
    IF grn_data.po_id \notin DOMAIN purchase_orders
    THEN /\ last' = Response("create_grn", "po_not_found", "", <<>>, 0)
         /\ UNCHANGED <<inflight, inventory, grns, dprs>>
    ELSE LET po  == purchase_orders[grn_data.po_id]
             out == GrnCheck(grns, po, grn_data.items, 1)
         IN  /\ out.result = "ok" => Len(grns) < MaxGrns
             /\ WithinBounds(SyncedLedger(inventory, po, grn_data, out.result))
             /\ grns' = StoredGrns(grns, grn_data, out.result)
             /\ inventory' = SyncedLedger(inventory, po, grn_data, out.result)
             /\ last' = Response("create_grn", out.result, "", out.info, out.at)
             /\ UNCHANGED <<inflight, dprs>>

\* create_grn when a store call of the sync loop raises at request line
\* fail_at: the GRN is on file, the lines before fail_at have been synced,
\* and the exception leaves the handler (there is no try around the loop),
\* so the caller gets an error response.
create_grn_sync_error(grn_data, fail_at) ==
    /\ grn_data.po_id \in DOMAIN purchase_orders
    /\ fail_at \in 1..Len(grn_data.items)
    /\ LET po     == purchase_orders[grn_data.po_id]
           out    == GrnCheck(grns, po, grn_data.items, 1)
           synced == SyncLedger(inventory, po, SubSeq(grn_data.items, 1, fail_at - 1), 1)
       IN  /\ out.result = "ok"
           /\ Len(grns) < MaxGrns
           /\ WithinBounds(synced)
           /\ grns' = StoredGrns(grns, grn_data, out.result)
           /\ inventory' = synced
           /\ last' = Response("create_grn", "sync_error", "", <<>>, fail_at)
           /\ UNCHANGED <<inflight, dprs>>

\* The collection without its document at position k.
Removed(g, k) == SubSeq(g, 1, k - 1) \o SubSeq(g, k + 1, Len(g))

\* delete_grn: grn_id names a stored GRN by its position in the collection at
\* the time of the request.  The ledger is left as the receipt made it.
delete_grn(grn_id) ==
    IF grn_id \in 1..Len(grns)
    THEN /\ grns' = Removed(grns, grn_id)
         /\ last' = Response("delete_grn", "ok", "", <<>>, 0)
         /\ UNCHANGED <<inflight, inventory, dprs>>
    ELSE /\ last' = Response("delete_grn", "not_found", "", <<>>, 0)
         /\ UNCHANGED <<inflight, inventory, grns, dprs>>

\* ------------------------------------------------------ daily stock ledger
\* The first entry of a report's material_stock_entries for an item, 0 when
\* the report has none.
FirstEntry(entries, inventory_id) ==
    LET hits == {i \in 1..Len(entries) : entries[i].inventory_id = inventory_id}
    IN  IF hits = {} THEN 0 ELSE CHOOSE i \in hits : \A j \in hits : i <= j

\* The query of get_previous_closing_stock with "$lte" on the date: the
\* reports of current_date itself match as well.
PreviousDprsSameDay(d, project_id, inventory_id, current_date) ==
    {i \in 1..Len(d) : /\ d[i].project_id = project_id
                       /\ d[i].date <= current_date
                       /\ FirstEntry(d[i].material_stock_entries, inventory_id) # 0}

\* The reports the query of get_previous_closing_stock matches: same project,
\* dated before current_date, with an entry for the item.
PreviousDprs(d, project_id, inventory_id, current_date) ==
    {i \in 1..Len(d) : /\ d[i].project_id = project_id
                       /\ d[i].date < current_date
                       /\ FirstEntry(d[i].material_stock_entries, inventory_id) # 0}

\* get_previous_closing_stock without its history query: the ledger quantity.
get_ledger_quantity(d, inv, project_id, inventory_id, current_date) ==
    LET k == FindItem(inv, inventory_id)
    IN  IF k # 0 THEN {inv[k].quantity} ELSE {0}

\* get_previous_closing_stock with the sort on date ascending: the oldest
\* matching report instead of the latest.
get_oldest_closing_stock(d, inv, project_id, inventory_id, current_date) ==
    LET prev   == PreviousDprs(d, project_id, inventory_id, current_date)
        oldest == {i \in prev : \A j \in prev : d[i].date <= d[j].date}
        k      == FindItem(inv, inventory_id)
    IN  IF prev # {}
        THEN {d[i].material_stock_entries[
                  FirstEntry(d[i].material_stock_entries, inventory_id)].closing_stock
              : i \in oldest}
        ELSE IF k # 0 THEN {inv[k].quantity} ELSE {0}

\* get_previous_closing_stock: every value it may return.  sort("date", -1)
\* .limit(1) yields a report of the latest matching date; among several
\* reports of that same date the store is free to yield any of them.
get_previous_closing_stock(d, inv, project_id, inventory_id, current_date) ==
    LET prev   == PreviousDprs(d, project_id, inventory_id, current_date)
        latest == {i \in prev : \A j \in prev : d[j].date <= d[i].date}
        k      == FindItem(inv, inventory_id)
    IN  IF prev # {}
        THEN {d[i].material_stock_entries[
                  FirstEntry(d[i].material_stock_entries, inventory_id)].closing_stock
              : i \in latest}
        ELSE IF k # 0 THEN {inv[k].quantity} ELSE {0}

RECURSIVE ResolvedEntries(_, _, _, _)
\* The resolved material_stock_entries of a report, entries 1..n of the
\* request: every sequence the resolution loop may build.
ResolvedEntries(d, inv, dpr_data, n) ==
    IF n = 0 THEN {<<>>}
    ELSE LET entry == dpr_data.material_stock_entries[n] IN
         {Append(done, [inventory_id |-> entry.inventory_id,
                        received |-> entry.received, used |-> entry.used,
                        opening_stock |-> opening,
                        closing_stock |-> Max(0, opening + entry.received - entry.used)])
          : done \in ResolvedEntries(d, inv, dpr_data, n - 1),
            opening \in get_previous_closing_stock(d, inv, dpr_data.project_id,
                                                   entry.inventory_id, dpr_data.date)}

\* The deduction of one entry without the max(0, ...).
DeductUnclamped(inv, item_id, qty_used) ==
    LET k == FindItem(inv, item_id) IN
    IF qty_used > 0 /\ k # 0
    THEN LET item    == inv[k]
             new_qty == item.quantity - qty_used
         IN  [inv EXCEPT ![k] = [item EXCEPT
                 !.quantity = new_qty,
                 !.total_value = new_qty * item.unit_price,
                 !.status = _inv_status(new_qty, item.minimum_quantity)]]
    ELSE inv

\* One usage deduction of create_dpr on the ledger.
Deduct(inv, item_id, qty_used) ==
    LET k == FindItem(inv, item_id) IN
    IF qty_used > 0 /\ k # 0
    THEN LET item    == inv[k]
             new_qty == Max(0, item.quantity - qty_used)
         IN  [inv EXCEPT ![k] = [item EXCEPT
                 !.quantity = new_qty,
                 !.total_value = new_qty * item.unit_price,
                 !.status = _inv_status(new_qty, item.minimum_quantity)]]
    ELSE inv

RECURSIVE DeductLegacy(_, _, _, _)
\* "Legacy: auto-deduct materials_used_entries (skip if handled by new path)".
DeductLegacy(inv, entries, n, new_path_ids) ==
    IF n > Len(entries) THEN inv
    ELSE DeductLegacy(IF entries[n].inventory_id \in new_path_ids THEN inv
                      ELSE Deduct(inv, entries[n].inventory_id, entries[n].quantity_used),
                      entries, n + 1, new_path_ids)

RECURSIVE DeductStockEntries(_, _, _)
\* "New path: deduct used qty from material_stock_entries".
DeductStockEntries(inv, entries, n) ==
    IF n > Len(entries) THEN inv
    ELSE DeductStockEntries(Deduct(inv, entries[n].inventory_id, entries[n].used),
                            entries, n + 1)

RECURSIVE MarkEquipmentAnyHours(_, _, _)
\* The equipment loop without its test on the hours used.
MarkEquipmentAnyHours(inv, entries, n) ==
    IF n > Len(entries) THEN inv
    ELSE LET k == FindItem(inv, entries[n].inventory_id) IN
         MarkEquipmentAnyHours(IF k # 0
                               THEN [inv EXCEPT ![k].equipment_status = "in_use"]
                               ELSE inv,
                               entries, n + 1)

RECURSIVE MarkEquipment(_, _, _)
\* "Equipment: mark as in_use if hours > 0".
MarkEquipment(inv, entries, n) ==
    IF n > Len(entries) THEN inv
    ELSE LET k == FindItem(inv, entries[n].inventory_id) IN
         MarkEquipment(IF entries[n].total_used_hours > 0 /\ k # 0
                       THEN [inv EXCEPT ![k].equipment_status = "in_use"] ELSE inv,
                       entries, n + 1)

create_dpr(dpr_data) ==
    /\ Len(dprs) < MaxDprs
    /\ \E resolved_material_entries \in
            ResolvedEntries(dprs, inventory, dpr_data, Len(dpr_data.material_stock_entries)) :
          LET new_path_ids == {resolved_material_entries[i].inventory_id
                               : i \in 1..Len(resolved_material_entries)}
              legacy == DeductLegacy(inventory, dpr_data.materials_used_entries, 1,
                                     new_path_ids)
              stock  == DeductStockEntries(legacy, resolved_material_entries, 1)
          IN  /\ dprs' = Append(dprs, [project_id |-> dpr_data.project_id,
                                       date |-> dpr_data.date,
                                       material_stock_entries |-> resolved_material_entries])
              /\ inventory' = MarkEquipment(stock, dpr_data.equipment_entries, 1)
    /\ last' = Response("create_dpr", "ok", "", <<>>, 0)
    /\ UNCHANGED <<inflight, grns>>

\* --------------------------------------------------------- specifications
\* The identifiers a request may name: those of the documents a collection
\* can hold, and one that names no document.
ItemIds == 1..(MaxItems + 1)

\* The requests in flight.  A handler is a coroutine: between two of its
\* store calls (its awaits) the steps of the other handler may run.  Each
\* keeps what it has read in its locals: the request, existing_grns and
\* count of create_grn, source and dest of transfer_material, existing of
\* update_quantity, resolved_material_entries and item of create_dpr.
Handlers == {1, 2}
IdleHandler ==
    [pc |-> "idle", data |-> <<>>, existing_grns |-> <<>>, count |-> 0,
     source |-> <<>>, dest |-> <<>>, existing |-> <<>>,
     resolved_material_entries |-> <<>>, item |-> <<>>, result |-> ""]
Idle == [h \in Handlers |-> IdleHandler]

\* The empty store.
Init ==
    /\ inventory = <<>>
    /\ grns = <<>>
    /\ dprs = <<>>
    /\ last = Response("init", "ok", "", <<>>, 0)
    /\ inflight = Idle
    /\ audit_logs = <<>>
    /\ response = None

\* --- the inventory controller on its own
ItemCreates ==
    [project_id : Projects, item_name : {"cement"}, unit : {"Bags"},
     quantity : {-1, 2}, minimum_quantity : {1}, unit_price : {12}]

\* Updates that set at most one field.
ItemUpdates ==
    {data \in [item_name : {<<>>}, quantity : Opt({1}),
               minimum_quantity : Opt({0}), unit_price : Opt({0})] :
        Len(data.quantity) + Len(data.minimum_quantity) + Len(data.unit_price) <= 1}

QuantityUpdates == [quantity : {-1, 1}, operation : {"set", "add", "subtract"}]

Transfers ==
    [from_item_id : ItemIds, to_project_id : Projects, to_item_id : Opt(ItemIds),
     quantity : {0, 2}]

NextInventory ==
    \/ \E data \in ItemCreates : create_item(data) /\ Direct
    \/ \E item_id \in ItemIds, data \in ItemUpdates : update_item(item_id, data) /\ Direct
    \/ \E item_id \in ItemIds, data \in QuantityUpdates : update_quantity(item_id, data) /\ Direct
    \/ \E data \in Transfers : transfer_material(data) /\ Direct

SpecInventory == Init /\ [][NextInventory]_vars

\* --- goods receipts against the purchase order, with a ledger that may
\* already hold the ordered material
ReceivedCreates ==
    [project_id : Projects, item_name : {"cement"}, unit : {"Bags"}, quantity : {1},
     minimum_quantity : {2}, unit_price : {0}]

GrnLines ==
    [po_item_index : {-3, -1, 0, 1, 2}, received_quantity : {1, 2}]
      \cup [po_item_index : {0}, received_quantity : {-1, 0}]
GrnPairLines ==
    {[po_item_index |-> 0, received_quantity |-> 1],
     [po_item_index |-> 0, received_quantity |-> 2],
     [po_item_index |-> 2, received_quantity |-> 1]}
GrnRequests ==
    [po_id : {"po1"}, items : SeqsOf(GrnLines, 0, 1) \cup SeqsOf(GrnPairLines, 2, 2)]
      \cup {[po_id |-> "po0", items |-> <<[po_item_index |-> 0, received_quantity |-> 1]>>]}

NextProcurement ==
    \/ \E data \in ReceivedCreates : create_item(data) /\ Direct
    \/ \E grn_data \in GrnRequests : create_grn(grn_data) /\ Direct

SpecProcurement == Init /\ [][NextProcurement]_vars

\* --- goods receipts whose ledger sync may fail in the store
NextSync ==
    \/ \E data \in ReceivedCreates : create_item(data) /\ Direct
    \/ \E grn_data \in GrnRequests : create_grn(grn_data) /\ Direct
    \/ \E grn_data \in GrnRequests, fail_at \in 1..2 :
          create_grn_sync_error(grn_data, fail_at) /\ Direct

SpecSync == Init /\ [][NextSync]_vars

\* --- goods receipts created and deleted
GrnIds == 1..(MaxGrns + 1)

NextReceipts ==
    \/ \E grn_data \in GrnRequests : create_grn(grn_data) /\ Direct
    \/ \E grn_id \in GrnIds : delete_grn(grn_id) /\ Direct

SpecReceipts == Init /\ [][NextReceipts]_vars

\* --- stock leaving a ledger that holds no negative quantity: transfers,
\* subtractions and the deductions of the daily progress reports
StockLedgers ==
    {<< [InventoryItem(1, "P1", "cement", q, 1, 12) EXCEPT
            !.unit = "Bags",
            !.total_value = q * 12, !.status = _compute_status(q, 1)] >>
     : q \in {0, MaxQty}}

InitStock ==
    /\ inventory \in StockLedgers
    /\ grns = <<>>
    /\ dprs = <<>>
    /\ last = Response("init", "ok", "", <<>>, 0)
    /\ inflight = Idle
    /\ audit_logs = <<>>
    /\ response = None

Subtractions == [quantity : {-1, 1, 2}, operation : {"subtract"}]

StockTransfers ==
    [from_item_id : {1, 2}, to_project_id : Projects, to_item_id : {<<>>, <<1>>, <<2>>},
     quantity : {-1, 0, 2}]

UsedEntries == [inventory_id : {1, 2}, quantity_used : {-1, 1}]
EquipmentEntries == [inventory_id : {2}, total_used_hours : {0, 1}]
StockDprs ==
    [project_id : {"P1"}, date : {1},
     material_stock_entries : {<<>>, <<[inventory_id |-> 1, received |-> 0, used |-> 2]>>},
     materials_used_entries : SeqsOf(UsedEntries, 0, 1),
     equipment_entries : SeqsOf(EquipmentEntries, 0, 1)]

NextStock ==
    \/ \E data \in StockTransfers : transfer_material(data) /\ Direct
    \/ \E item_id \in {1, 2}, data \in Subtractions : update_quantity(item_id, data) /\ Direct
    \/ \E dpr_data \in StockDprs : create_dpr(dpr_data) /\ Direct

SpecStock == InitStock /\ [][NextStock]_vars

\* --- transfers and subtractions alone, on the same ledgers
NextTransfer ==
    \/ \E data \in StockTransfers : transfer_material(data) /\ Direct
    \/ \E item_id \in {1, 2}, data \in Subtractions : update_quantity(item_id, data) /\ Direct

SpecTransfer == InitStock /\ [][NextTransfer]_vars

\* --- the daily progress reports of one project, in any order of dates
DprLedgers ==
    {<< [InventoryItem(1, "P1", "cement", MaxQty, 1, 12) EXCEPT
            !.unit = "Bags",
            !.total_value = MaxQty * 12, !.status = _compute_status(MaxQty, 1)],
        [InventoryItem(2, "P1", "steel", 1, 0, 0) EXCEPT
            !.unit = "Kg",
            !.status = _compute_status(1, 0)] >>}

InitDpr ==
    /\ inventory \in DprLedgers
    /\ grns = <<>>
    /\ dprs = <<>>
    /\ last = Response("init", "ok", "", <<>>, 0)
    /\ inflight = Idle
    /\ audit_logs = <<>>
    /\ response = None

StockEntries ==
    {[inventory_id |-> 1, received |-> 2, used |-> 1],
     [inventory_id |-> 1, received |-> 0, used |-> 5],
     [inventory_id |-> 2, received |-> 0, used |-> 1]}
DprRequests ==
    [project_id : Projects, date : 1..MaxDate,
     material_stock_entries : SeqsOf(StockEntries, 0, 2),
     materials_used_entries : {<<>>}, equipment_entries : {<<>>}]

NextDpr == \E dpr_data \in DprRequests : create_dpr(dpr_data) /\ Direct

SpecDpr == InitDpr /\ [][NextDpr]_vars

\* ------------------------------------------- create_grn, step by step
\* The handler of create_grn as the coroutine it is: one action per store
\* call, the code between two calls running with the call that precedes it.
\* The validation loop, which touches no store, is a step of its own.

\* The handler h leaves with an exception or its return value.
Leave(h, result) == [inflight EXCEPT ![h].pc = "done", ![h].result = result]

\* po = await db.purchase_orders.find_one(...)
grn_find_po(h, grn_data) ==
    /\ inflight[h].pc = "idle"
    /\ IF grn_data.po_id \notin DOMAIN purchase_orders
       THEN /\ inflight' = [Leave(h, "po_not_found") EXCEPT ![h].data = <<grn_data>>]
            /\ last' = Response("create_grn", "po_not_found", "", <<>>, 0)
       ELSE /\ inflight' = [inflight EXCEPT ![h].pc = "po_found",
                                            ![h].data = <<grn_data>>]
            /\ UNCHANGED last
    /\ UNCHANGED <<inventory, grns, dprs>>

\* existing_grns = await db.grns.find({"po_id": ...}).to_list(1000)
grn_find_existing(h) ==
    /\ inflight[h].pc = "po_found"
    /\ LET grn_data == inflight[h].data[1]
           of_order(g) == g.po_id = grn_data.po_id
       IN  inflight' = [inflight EXCEPT ![h].pc = "read",
                                        ![h].existing_grns = SelectSeq(grns, of_order)]
    /\ UNCHANGED <<inventory, grns, dprs, last>>

\* The validation loop, on the existing_grns the handler holds.
grn_check(h) ==
    /\ inflight[h].pc = "read"
    /\ LET grn_data == inflight[h].data[1]
           po       == purchase_orders[grn_data.po_id]
           out      == GrnCheck(inflight[h].existing_grns, po, grn_data.items, 1)
       IN  IF out.result # "ok"
           THEN /\ inflight' = Leave(h, out.result)
                /\ last' = Response("create_grn", out.result, "", out.info, out.at)
           ELSE /\ inflight' = [inflight EXCEPT ![h].pc = "checked"]
                /\ UNCHANGED last
    /\ UNCHANGED <<inventory, grns, dprs>>

\* count = await db.grns.count_documents({})
grn_count(h) ==
    /\ inflight[h].pc = "checked"
    /\ inflight' = [inflight EXCEPT ![h].pc = "counted", ![h].count = Len(grns)]
    /\ UNCHANGED <<inventory, grns, dprs, last>>

\* An insert that validates the request again, on the GRNs now on file,
\* and stores nothing when it would over-receive.
InsertedGrnRechecked(g, grn_data, count) ==
    IF GrnCheck(g, purchase_orders[grn_data.po_id], grn_data.items, 1).result = "ok"
    THEN Append(g, [po_id |-> grn_data.po_id, grn_number |-> count + 1,
                    items |-> grn_data.items])
    ELSE g

\* await db.grns.insert_one(grn.model_dump()): numbered from the count the
\* handler holds, stored whatever has been inserted since its reads.
InsertedGrn(g, grn_data, count) ==
    Append(g, [po_id |-> grn_data.po_id, grn_number |-> count + 1,
               items |-> grn_data.items])

grn_insert(h) ==
    /\ inflight[h].pc = "counted"
    /\ Len(grns) < MaxGrns
    /\ grns' = InsertedGrn(grns, inflight[h].data[1], inflight[h].count)
    /\ inflight' = [inflight EXCEPT ![h].pc = "stored"]
    /\ UNCHANGED <<inventory, dprs, last>>

\* The sync loop and the return.  The loop is taken as one step: what its
\* store calls interleave with is the ledger, not the GRNs.
grn_sync(h) ==
    /\ inflight[h].pc = "stored"
    /\ LET grn_data == inflight[h].data[1]
           po       == purchase_orders[grn_data.po_id]
           synced   == SyncLedger(inventory, po, grn_data.items, 1)
       IN  /\ WithinBounds(synced)
           /\ inventory' = synced
    /\ inflight' = Leave(h, "ok")
    /\ last' = Response("create_grn", "ok", "", <<>>, 0)
    /\ UNCHANGED <<grns, dprs>>

\* Two submissions against the first line of po1 (two ordered), and one
\* that names no order.
RaceGrnRequests ==
    [po_id : {"po1"},
     items : SeqsOf([po_item_index : {0}, received_quantity : {1, 2}], 1, 1)]
      \cup {[po_id |-> "po0", items |-> <<[po_item_index |-> 0, received_quantity |-> 1]>>]}

NextGrnRace ==
    \/ \E h \in Handlers, grn_data \in RaceGrnRequests : grn_find_po(h, grn_data) /\ Direct
    \/ \E h \in Handlers : grn_find_existing(h) /\ Direct
    \/ \E h \in Handlers : grn_check(h) /\ Direct
    \/ \E h \in Handlers : grn_count(h) /\ Direct
    \/ \E h \in Handlers : grn_insert(h) /\ Direct
    \/ \E h \in Handlers : grn_sync(h) /\ Direct

SpecGrnRace == Init /\ [][NextGrnRace]_vars

\* -------------------------------------- transfer_material, step by step
\* The handler of transfer_material as the coroutine it is: one action per
\* store call; the preconditions, which touch no store, are a step of their
\* own, taken on the source document the handler holds.

\* source = await db.inventory.find_one({"id": data.from_item_id})
transfer_find_source(h, data) ==
    /\ inflight[h].pc = "idle"
    /\ LET k == FindItem(inventory, data.from_item_id) IN
       IF k = 0
       THEN /\ inflight' = [Leave(h, "not_found") EXCEPT ![h].data = <<data>>]
            /\ last' = Response("transfer_material", "not_found",
                                data.to_project_id, <<>>, 0)
       ELSE /\ inflight' = [inflight EXCEPT ![h].pc = "read", ![h].data = <<data>>,
                                            ![h].source = <<inventory[k]>>]
            /\ UNCHANGED last
    /\ UNCHANGED <<inventory, grns, dprs>>

\* The preconditions, on the source document the handler has read.
transfer_check(h) ==
    /\ inflight[h].pc = "read"
    /\ LET data   == inflight[h].data[1]
           source == inflight[h].source
           check  == TransferCheck(source, 1, data)
       IN  IF check # "ok"
           THEN /\ inflight' = Leave(h, check)
                /\ last' = Response("transfer_material", check, data.to_project_id,
                                    IF check = "insufficient_stock"
                                    THEN <<source[1].quantity, source[1].unit>>
                                    ELSE <<>>, 0)
           ELSE /\ inflight' = [inflight EXCEPT ![h].pc = "checked"]
                /\ UNCHANGED last
    /\ UNCHANGED <<inventory, grns, dprs>>

\* A deduction taken from the quantity the document holds when it is
\* written (an atomic decrement), not from the one the handler has read.
DeductCurrent(inv, k, source, quantity) ==
    LET new_src_qty == inv[k].quantity - quantity
    IN  [inv EXCEPT ![k] = [inv[k] EXCEPT
            !.quantity = new_src_qty,
            !.total_value = new_src_qty * source.unit_price,
            !.status = _compute_status(new_src_qty, source.minimum_quantity)]]

\* "Deduct from source": update_one sets the fields computed from the
\* source document the handler has read.
DeductRead(inv, k, source, quantity) ==
    LET new_src_qty == source.quantity - quantity
    IN  [inv EXCEPT ![k] = [inv[k] EXCEPT
            !.quantity = new_src_qty,
            !.total_value = new_src_qty * source.unit_price,
            !.status = _compute_status(new_src_qty, source.minimum_quantity)]]

transfer_deduct(h) ==
    /\ inflight[h].pc = "checked"
    /\ LET data == inflight[h].data[1]
           k    == FindItem(inventory, data.from_item_id)
       IN  inventory' = DeductRead(inventory, k, inflight[h].source[1], data.quantity)
    /\ inflight' = [inflight EXCEPT ![h].pc = "deducted"]
    /\ UNCHANGED <<grns, dprs, last>>

\* dest = await db.inventory.find_one({"id": data.to_item_id})
transfer_find_dest(h) ==
    /\ inflight[h].pc = "deducted"
    /\ inflight[h].data[1].to_item_id # <<>>
    /\ LET d == FindItem(inventory, inflight[h].data[1].to_item_id[1]) IN
       IF d = 0
       THEN /\ inflight' = Leave(h, "destination_not_found")
            /\ last' = Response("transfer_material", "destination_not_found",
                                "", <<>>, 0)
       ELSE /\ inflight' = [inflight EXCEPT ![h].pc = "dest_read",
                                            ![h].dest = <<inventory[d]>>]
            /\ UNCHANGED last
    /\ UNCHANGED <<inventory, grns, dprs>>

\* The update_one of the destination: the fields computed from the
\* destination document the handler has read.
AddToRead(inv, d, dest, quantity) ==
    LET new_dest_qty == dest.quantity + quantity
    IN  [inv EXCEPT ![d] = [inv[d] EXCEPT
            !.quantity = new_dest_qty,
            !.total_value = new_dest_qty * dest.unit_price,
            !.status = _compute_status(new_dest_qty, dest.minimum_quantity)]]

transfer_add(h) ==
    /\ inflight[h].pc = "dest_read"
    /\ LET data  == inflight[h].data[1]
           dest  == inflight[h].dest[1]
           added == AddToRead(inventory, dest.id, dest, data.quantity)
       IN  /\ WithinBounds(added)
           /\ inventory' = added
           /\ last' = Response("transfer_material", "ok", "", <<data.quantity>>, 0)
    /\ inflight' = Leave(h, "ok")
    /\ UNCHANGED <<grns, dprs>>

\* No destination item selected: insert_one of the new document.
transfer_insert(h) ==
    /\ inflight[h].pc = "deducted"
    /\ inflight[h].data[1].to_item_id = <<>>
    /\ Len(inventory) < MaxItems
    /\ LET data == inflight[h].data[1] IN
       /\ inventory' = Append(inventory,
                              NewTransferredItem(inventory, inflight[h].source[1], data))
       /\ last' = Response("transfer_material", "ok", "", <<data.quantity>>, 0)
    /\ inflight' = Leave(h, "ok")
    /\ UNCHANGED <<grns, dprs>>

\* The source item of P1 holds SourceQuantity; P2 may hold the item already.
SourceQuantity == MaxQty - 1
RaceLedgers ==
    LET source == [InventoryItem(1, "P1", "cement", SourceQuantity, 1, 12) EXCEPT
                      !.unit = "Bags",
                      !.total_value = SourceQuantity * 12,
                      !.status = _compute_status(SourceQuantity, 1)]
        dest   == [InventoryItem(2, "P2", "cement", 0, 1, 12) EXCEPT
                      !.unit = "Bags",
                      !.status = _compute_status(0, 1)]
    IN  {<<source>>, <<source, dest>>}

InitTransferRace ==
    /\ inventory \in RaceLedgers
    /\ grns = <<>>
    /\ dprs = <<>>
    /\ last = Response("init", "ok", "", <<>>, 0)
    /\ inflight = Idle
    /\ audit_logs = <<>>
    /\ response = None

RaceTransfers ==
    [from_item_id : {1, 3}, to_project_id : Projects, to_item_id : {<<>>, <<2>>},
     quantity : {1, 2}]

NextTransferRace ==
    \/ \E h \in Handlers, data \in RaceTransfers : transfer_find_source(h, data) /\ Direct
    \/ \E h \in Handlers : transfer_check(h) /\ Direct
    \/ \E h \in Handlers : transfer_deduct(h) /\ Direct
    \/ \E h \in Handlers : transfer_find_dest(h) /\ Direct
    \/ \E h \in Handlers : transfer_add(h) /\ Direct
    \/ \E h \in Handlers : transfer_insert(h) /\ Direct

SpecTransferRace == InitTransferRace /\ [][NextTransferRace]_vars

\* ------------------------------------ the ledger sync, step by step
\* The sync loop of create_grn for a GRN of one line: the lookup of the item
\* by project and name, then the update of the item found or the insert of a
\* new one.

\* existing = await db.inventory.find_one({"project_id": ..., "item_name": ...})
sync_find(h) ==
    /\ inflight[h].pc = "stored"
    /\ LET grn_data == inflight[h].data[1]
           po       == purchase_orders[grn_data.po_id]
           po_item  == PyAt(po.items, grn_data.items[1].po_item_index)
           e        == FindByName(inventory, po.project_id, po_item.description)
       IN  inflight' = [inflight EXCEPT
                           ![h].pc = "looked_up",
                           ![h].existing = IF e = 0 THEN <<>> ELSE <<inventory[e]>>]
    /\ UNCHANGED <<inventory, grns, dprs, last>>

\* The update_one of the merge branch: the fields computed from the document
\* the handler has read, set on the document of that id.
MergedRead(inv, existing, received_qty, unit_price, vendor_id) ==
    LET merged == MergeReceipt(existing, received_qty, unit_price, vendor_id)
    IN  [inv EXCEPT ![existing.id] = [inv[existing.id] EXCEPT
            !.quantity = merged.quantity,
            !.total_value = merged.total_value,
            !.status = merged.status,
            !.vendor_id = merged.vendor_id]]

\* The write of the sync loop and the return of create_grn.
sync_write(h) ==
    /\ inflight[h].pc = "looked_up"
    /\ LET grn_data     == inflight[h].data[1]
           po           == purchase_orders[grn_data.po_id]
           po_item      == PyAt(po.items, grn_data.items[1].po_item_index)
           received_qty == grn_data.items[1].received_quantity
           written ==
              IF inflight[h].existing # <<>>
              THEN MergedRead(inventory, inflight[h].existing[1], received_qty,
                              po_item.rate, po.vendor_id)
              ELSE Append(inventory,
                          ReceivedItem(Len(inventory) + 1, po.project_id,
                                       po_item.description, po_item.unit,
                                       received_qty, po_item.rate, po.vendor_id))
       IN  /\ WithinBounds(written)
           /\ inventory' = written
    /\ inflight' = Leave(h, "ok")
    /\ last' = Response("create_grn", "ok", "", <<>>, 0)
    /\ UNCHANGED <<grns, dprs>>

\* The ledger holds no item, or the item of the order's first line at 0.
SyncRaceLedgers ==
    {<<>>,
     << [InventoryItem(1, "P1", "cement", 0, 2, 0) EXCEPT
            !.unit = "Bags", !.status = _compute_status(0, 2)] >>}

InitSyncRace ==
    /\ inventory \in SyncRaceLedgers
    /\ grns = <<>>
    /\ dprs = <<>>
    /\ last = Response("init", "ok", "", <<>>, 0)
    /\ inflight = Idle
    /\ audit_logs = <<>>
    /\ response = None

\* Receipts of one unit on the first line of po1 (two ordered).
SyncRaceRequests ==
    [po_id : {"po1"}, items : {<<[po_item_index |-> 0, received_quantity |-> 1]>>}]

NextSyncRace ==
    \/ \E h \in Handlers, grn_data \in SyncRaceRequests :
          grn_find_po(h, grn_data) /\ Direct
    \/ \E h \in Handlers : grn_find_existing(h) /\ Direct
    \/ \E h \in Handlers : grn_check(h) /\ Direct
    \/ \E h \in Handlers : grn_count(h) /\ Direct
    \/ \E h \in Handlers : grn_insert(h) /\ Direct
    \/ \E h \in Handlers : sync_find(h) /\ Direct
    \/ \E h \in Handlers : sync_write(h) /\ Direct

SpecSyncRace == InitSyncRace /\ [][NextSyncRace]_vars

\* ----------------------- update_quantity and create_dpr, step by step
\* update_quantity as a coroutine: the read of the item, then the
\* computation, the check and the write.

\* existing = await db.inventory.find_one({"id": item_id})
quantity_find(h, item_id, data) ==
    /\ inflight[h].pc = "idle"
    /\ LET k       == FindItem(inventory, item_id)
           request == [item_id |-> item_id, quantity |-> data.quantity,
                       operation |-> data.operation]
       IN  IF k = 0
           THEN /\ inflight' = [Leave(h, "not_found") EXCEPT ![h].data = <<request>>]
                /\ last' = Response("update_quantity", "not_found", data.operation,
                                    <<>>, 0)
           ELSE /\ inflight' = [inflight EXCEPT ![h].pc = "existing_read",
                                                ![h].data = <<request>>,
                                                ![h].existing = <<inventory[k]>>]
                /\ UNCHANGED last
    /\ UNCHANGED <<inventory, grns, dprs>>

\* A subtraction applied to the quantity the document holds when it is
\* written, the check having been made on the quantity read.
QuantityWrittenCurrent(inv, k, existing, new_qty) ==
    LET current == inv[k].quantity - (existing.quantity - new_qty)
    IN  [inv EXCEPT ![k] = [inv[k] EXCEPT
            !.quantity = current,
            !.total_value = current * existing.unit_price,
            !.status = _compute_status(current, existing.minimum_quantity)]]

\* The update_one of update_quantity: the fields computed from the document
\* the handler has read.
QuantityWritten(inv, k, existing, new_qty) ==
    [inv EXCEPT ![k] = [inv[k] EXCEPT
        !.quantity = new_qty,
        !.total_value = new_qty * existing.unit_price,
        !.status = _compute_status(new_qty, existing.minimum_quantity)]]

quantity_write(h) ==
    /\ inflight[h].pc = "existing_read"
    /\ LET data     == inflight[h].data[1]
           existing == inflight[h].existing[1]
           nq       == NewQuantity(existing.quantity, data)
           k        == FindItem(inventory, data.item_id)
       IN  IF nq[2]
           THEN /\ inflight' = Leave(h, "below_zero")
                /\ last' = Response("update_quantity", "below_zero", data.operation,
                                    <<>>, 0)
                /\ UNCHANGED inventory
           ELSE /\ WithinBounds(QuantityWritten(inventory, k, existing, nq[1]))
                /\ inventory' = QuantityWritten(inventory, k, existing, nq[1])
                /\ inflight' = Leave(h, "ok")
                /\ last' = Response("update_quantity", "ok", data.operation, <<>>, 0)
    /\ UNCHANGED <<grns, dprs>>

\* create_dpr as a coroutine, for a report of one material line and no other
\* entries: the resolution of the line (taken as one step: it reads only),
\* the insert of the report, the read of the item and the write of the
\* deduction.
dpr_resolve(h, dpr_data) ==
    /\ inflight[h].pc = "idle"
    /\ \E resolved_material_entries \in
            ResolvedEntries(dprs, inventory, dpr_data, Len(dpr_data.material_stock_entries)) :
          inflight' = [inflight EXCEPT
                          ![h].pc = "resolved", ![h].data = <<dpr_data>>,
                          ![h].resolved_material_entries = resolved_material_entries]
    /\ UNCHANGED <<inventory, grns, dprs, last>>

\* await db.dprs.insert_one(...)
dpr_insert(h) ==
    /\ inflight[h].pc = "resolved"
    /\ Len(dprs) < MaxDprs
    /\ dprs' = Append(dprs, [project_id |-> inflight[h].data[1].project_id,
                             date |-> inflight[h].data[1].date,
                             material_stock_entries |->
                                inflight[h].resolved_material_entries])
    /\ inflight' = [inflight EXCEPT ![h].pc = "dpr_stored"]
    /\ UNCHANGED <<inventory, grns, last>>

\* item = await db.inventory.find_one({"id": item_id}), for a line with
\* used > 0; the handler returns when there is nothing to deduct.
dpr_find_item(h) ==
    /\ inflight[h].pc = "dpr_stored"
    /\ LET entry == inflight[h].resolved_material_entries[1]
           k     == FindItem(inventory, entry.inventory_id)
       IN  IF entry.used > 0 /\ k # 0
           THEN /\ inflight' = [inflight EXCEPT ![h].pc = "item_read",
                                                ![h].item = <<inventory[k]>>]
                /\ UNCHANGED last
           ELSE /\ inflight' = Leave(h, "ok")
                /\ last' = Response("create_dpr", "ok", "", <<>>, 0)
    /\ UNCHANGED <<inventory, grns, dprs>>

\* The update_one of the deduction: max(0, ...) of the quantity the handler
\* has read.
DeductedRead(inv, k, item, qty_used) ==
    LET new_qty == Max(0, item.quantity - qty_used)
    IN  [inv EXCEPT ![k] = [inv[k] EXCEPT
            !.quantity = new_qty,
            !.total_value = new_qty * item.unit_price,
            !.status = _inv_status(new_qty, item.minimum_quantity)]]

dpr_deduct(h) ==
    /\ inflight[h].pc = "item_read"
    /\ LET entry == inflight[h].resolved_material_entries[1]
           k     == FindItem(inventory, entry.inventory_id)
       IN  inventory' = DeductedRead(inventory, k, inflight[h].item[1], entry.used)
    /\ inflight' = Leave(h, "ok")
    /\ last' = Response("create_dpr", "ok", "", <<>>, 0)
    /\ UNCHANGED <<grns, dprs>>

\* Transfers, subtractions and reports that all draw on item 1.
RaceSubtractions == [quantity : {1, 2}, operation : {"subtract"}]
RaceDprs ==
    [project_id : {"P1"}, date : {1},
     material_stock_entries :
        {<<[inventory_id |-> 1, received |-> 0, used |-> u]>> : u \in {0, 1, 2}},
     materials_used_entries : {<<>>}, equipment_entries : {<<>>}]
RaceDeductTransfers ==
    [from_item_id : {1}, to_project_id : {"P2"}, to_item_id : {<<>>, <<2>>},
     quantity : {1, 2}]

NextDeductRace ==
    \/ \E h \in Handlers, data \in RaceDeductTransfers :
          transfer_find_source(h, data) /\ Direct
    \/ \E h \in Handlers : transfer_check(h) /\ Direct
    \/ \E h \in Handlers : transfer_deduct(h) /\ Direct
    \/ \E h \in Handlers : transfer_find_dest(h) /\ Direct
    \/ \E h \in Handlers : transfer_add(h) /\ Direct
    \/ \E h \in Handlers : transfer_insert(h) /\ Direct
    \/ \E h \in Handlers, item_id \in {1, 3}, data \in RaceSubtractions :
          quantity_find(h, item_id, data) /\ Direct
    \/ \E h \in Handlers : quantity_write(h) /\ Direct
    \/ \E h \in Handlers, dpr_data \in RaceDprs : dpr_resolve(h, dpr_data) /\ Direct
    \/ \E h \in Handlers : dpr_insert(h) /\ Direct
    \/ \E h \in Handlers : dpr_find_item(h) /\ Direct
    \/ \E h \in Handlers : dpr_deduct(h) /\ Direct

SpecDeductRace == InitTransferRace /\ [][NextDeductRace]_vars

\* --- reports with equipment entries, on the ledger of the progress reports
EquipmentDprs ==
    [project_id : {"P1"}, date : {1, 2},
     material_stock_entries : {<<>>, <<[inventory_id |-> 1, received |-> 0, used |-> 1]>>},
     materials_used_entries : {<<>>},
     equipment_entries :
        SeqsOf([inventory_id : {1, 2, 3}, total_used_hours : {0, 1}], 0, 2)]

NextEquipment == \E dpr_data \in EquipmentDprs : create_dpr(dpr_data) /\ Direct

SpecEquipment == InitDpr /\ [][NextEquipment]_vars

\* --- reports of one project on two dates, one material line each
SameDayEntries ==
    {[inventory_id |-> 1, received |-> 2, used |-> 1],
     [inventory_id |-> 1, received |-> 0, used |-> 1],
     [inventory_id |-> 2, received |-> 0, used |-> 1]}
SameDayDprs ==
    [project_id : {"P1"}, date : {1, 2},
     material_stock_entries : SeqsOf(SameDayEntries, 1, 1),
     materials_used_entries : {<<>>}, equipment_entries : {<<>>}]

NextSameDay == \E dpr_data \in SameDayDprs : create_dpr(dpr_data) /\ Direct

SpecSameDay == InitDpr /\ [][NextSameDay]_vars

\* ------------------------------------------- the classifiers on their own
\* Each copy of the classifier applied to a pair (quantity, minimum_quantity)
\* of numbers; last.info holds the pair, last.result the status returned and
\* last.op the copy that returned it.
StatusQuantities == -2..21
StatusMinimums   == -1..11

InitStatus ==
    /\ inventory = <<>>
    /\ grns = <<>>
    /\ dprs = <<>>
    /\ \E quantity \in StatusQuantities, minimum_quantity \in StatusMinimums :
          last = Response("init", "ok", "", <<quantity, minimum_quantity>>, 0)
    /\ inflight = Idle
    /\ audit_logs = <<>>
    /\ response = None

classify_inventory ==
    /\ last' = Response("_compute_status", _compute_status(last.info[1], last.info[2]),
                        "", last.info, 0)
    /\ UNCHANGED <<inventory, grns, dprs, inflight>>

classify_procurement ==
    /\ last' = Response("_inventory_status", _inventory_status(last.info[1], last.info[2]),
                        "", last.info, 0)
    /\ UNCHANGED <<inventory, grns, dprs, inflight>>

classify_project ==
    /\ last' = Response("_inv_status", _inv_status(last.info[1], last.info[2]),
                        "", last.info, 0)
    /\ UNCHANGED <<inventory, grns, dprs, inflight>>

NextStatus ==
    \/ classify_inventory /\ Direct
    \/ classify_procurement /\ Direct
    \/ classify_project /\ Direct

SpecStatus == InitStatus /\ [][NextStatus]_vars

\* ------------------------------------------------------ routes and audit
\* A route awaits its controller and then log_audit, whose arguments it
\* builds first.  An exception of the controller (its HTTPException, or an
\* error it does not catch) ends the route before log_audit; so does an
\* exception raised while the arguments are built.  log_audit catches what
\* its own body raises.  response is the status class the caller gets.
MaxAudits == 2     \* stored audit entries

\* log_audit: the insert inside its try; insert_fails tells whether the store
\* call raises, which the except clause swallows.
log_audit(logs, action, module, resource, insert_fails) ==
    IF insert_fails THEN logs
    ELSE Append(logs, [action |-> action, module |-> module, resource |-> resource])

\* The rest of a route once its controller has acted (last' is the
\* controller's outcome): the audit entry and the response.
ThenAudit(action, module, resource, insert_fails) ==
    IF last'.result = "ok"
    THEN /\ insert_fails \/ Len(audit_logs) < MaxAudits
         /\ audit_logs' = log_audit(audit_logs, action, module, resource, insert_fails)
         /\ response' = "success"
    ELSE /\ response' = "error"
         /\ UNCHANGED audit_logs

\* POST /inventory: the description is built from data.name, and the request
\* model has no field of that name (it is item_name); the attribute access
\* raises in the route, outside log_audit's try, once the item is stored.
route_create_item(data) ==
    /\ create_item(data)
    /\ response' = "error"
    /\ UNCHANGED audit_logs

route_update_item(item_id, data, insert_fails) ==
    /\ update_item(item_id, data)
    /\ ThenAudit("UPDATE", "inventory", "item", insert_fails)

route_update_quantity(item_id, data, insert_fails) ==
    /\ update_quantity(item_id, data)
    /\ ThenAudit("UPDATE", "inventory", "item", insert_fails)

route_transfer_material(data, insert_fails) ==
    /\ transfer_material(data)
    /\ ThenAudit("UPDATE", "inventory", "transfer", insert_fails)

route_create_grn(grn_data, insert_fails) ==
    /\ create_grn(grn_data)
    /\ ThenAudit("CREATE", "procurement", "grn", insert_fails)

route_create_dpr(dpr_data, insert_fails) ==
    /\ create_dpr(dpr_data)
    /\ ThenAudit("CREATE", "projects", "dpr", insert_fails)

AuditCreates ==
    [project_id : {"P1"}, item_name : {"cement"}, unit : {"Bags"},
     quantity : {2}, minimum_quantity : {1}, unit_price : {12}]
AuditUpdates ==
    [item_name : {<<>>}, quantity : {<<>>}, minimum_quantity : {<<0>>},
     unit_price : {<<>>}]
AuditQuantityUpdates == [quantity : {1}, operation : {"subtract"}]
AuditTransfers ==
    [from_item_id : {1}, to_project_id : {"P2"}, to_item_id : {<<>>}, quantity : {2}]
AuditGrns ==
    [po_id : {"po1"}, items : {<<[po_item_index |-> 0, received_quantity |-> 2]>>}]
AuditDprs ==
    [project_id : {"P1"}, date : {1},
     material_stock_entries : {<<>>},
     materials_used_entries : {<<>>}, equipment_entries : {<<>>}]

NextAudit ==
    \/ \E data \in AuditCreates : route_create_item(data)
    \/ \E item_id \in {1}, data \in AuditUpdates, insert_fails \in BOOLEAN :
          route_update_item(item_id, data, insert_fails)
    \/ \E item_id \in {1, 3}, data \in AuditQuantityUpdates, insert_fails \in BOOLEAN :
          route_update_quantity(item_id, data, insert_fails)
    \/ \E data \in AuditTransfers, insert_fails \in BOOLEAN :
          route_transfer_material(data, insert_fails)
    \/ \E grn_data \in AuditGrns, insert_fails \in BOOLEAN :
          route_create_grn(grn_data, insert_fails)
    \/ \E dpr_data \in AuditDprs, insert_fails \in BOOLEAN :
          route_create_dpr(dpr_data, insert_fails)

SpecAudit == Init /\ [][NextAudit]_vars

\* ------------------------------------------------------------- properties
\* The position in po.items of the line a stored GRN line refers to: the one
\* the ledger sync reads with po["items"][po_item_index].
ReferencedLine(po, po_item_index) ==
    IF po_item_index >= 0 THEN po_item_index + 1 ELSE Len(po.items) + po_item_index + 1

RECURSIVE LinesReceived(_, _, _, _)
\* Over the lines items[n..] of one GRN of po, the sum of received_quantity of
\* those that refer to line `line` of the order.
LinesReceived(items, n, po, line) ==
    IF n > Len(items) THEN 0
    ELSE (IF ReferencedLine(po, items[n].po_item_index) = line
          THEN items[n].received_quantity ELSE 0)
         + LinesReceived(items, n + 1, po, line)

RECURSIVE ReceivedOnLine(_, _, _, _)
\* The sum of received_quantity over all stored GRN lines, g[n..], that refer
\* to line `line` of the order po.
ReceivedOnLine(g, n, po, line) ==
    IF n > Len(g) THEN 0
    ELSE (IF g[n].po_id = po.id THEN LinesReceived(g[n].items, 1, po, line) ELSE 0)
         + ReceivedOnLine(g, n + 1, po, line)

\* C1 (conservation): for every line of every purchase order, the received
\* quantities of all stored GRN lines that refer to the line add up to no
\* more than the quantity ordered.
C1_Conservation ==
    \A id \in DOMAIN purchase_orders :
        LET po == purchase_orders[id] IN
        \A line \in 1..Len(po.items) :
            ReceivedOnLine(grns, 1, po, line) <= po.items[line].quantity

\* C2 (atomic rejection): a create_grn that answers with an error (order not
\* found, invalid index, IndexError, over-receipt on some line) leaves the GRN
\* collection and the ledger as they were.
C2_AtomicRejection ==
    [][(last'.op = "create_grn" /\ last'.result # "ok")
         => (grns' = grns /\ inventory' = inventory)]_vars

\* A submission refused on its second line, after a first line that passed,
\* with a receipt and a ledger entry on file.
C2_Witness ==
    /\ last.op = "create_grn"
    /\ last.result = "over_receipt"
    /\ last.at = 2
    /\ Len(grns) >= 1
    /\ Len(inventory) >= 1

\* C3 (status consistency): every stored item's status is the classifier's
\* value for its quantity and minimum quantity.
C3_StatusConsistency ==
    \A i \in 1..Len(inventory) :
        inventory[i].status
          = _compute_status(inventory[i].quantity, inventory[i].minimum_quantity)

\* C4 (value consistency): every stored item's total_value is its quantity
\* times its unit_price, up to the rounding to a hundredth (half a hundredth,
\* 5 thousandths).
C4_ValueConsistency ==
    \A i \in 1..Len(inventory) :
        Abs(inventory[i].total_value - inventory[i].quantity * inventory[i].unit_price) <= 5

\* C5 (non-negativity at all times): no stored item has a negative quantity.
C5_NonNegative ==
    \A i \in 1..Len(inventory) : inventory[i].quantity >= 0

NonNegativeLedger(inv) == \A i \in 1..Len(inv) : inv[i].quantity >= 0

\* C6 (non-negativity under decrements): from a ledger without negative
\* quantities, transfers, subtractions and the deductions of progress reports
\* never make a quantity negative; a transfer or a subtraction that would go
\* below zero is refused and changes nothing, a deduction stops at zero.
C6_DecrementsKeepNonNegative ==
    /\ []NonNegativeLedger(inventory)
    /\ [][/\ \A data \in StockTransfers :
               LET k == FindItem(inventory, data.from_item_id) IN
               (/\ last'.op = "transfer_material"
                /\ k # 0
                /\ data.quantity > 0
                /\ inventory[k].quantity - data.quantity < 0
                /\ transfer_material(data))
               => (last'.result = "insufficient_stock" /\ inventory' = inventory)
          /\ \A item_id \in {1, 2}, data \in Subtractions :
               LET k == FindItem(inventory, item_id) IN
               (/\ last'.op = "update_quantity"
                /\ k # 0
                /\ inventory[k].quantity - data.quantity < 0
                /\ update_quantity(item_id, data))
               => (last'.result = "below_zero" /\ inventory' = inventory)
          /\ \A i \in 1..Len(inventory) :
               (last'.op = "create_dpr" /\ inventory'[i].quantity # inventory[i].quantity)
               => (inventory'[i].quantity >= 0
                   /\ inventory'[i].quantity < inventory[i].quantity)]_vars

\* A report that used 2 of an item of which the ledger held 1: the quantity
\* stopped at zero.
C6_Witness ==
    /\ last.op = "create_dpr"
    /\ Len(dprs) >= 1
    /\ LET entries == dprs[Len(dprs)].material_stock_entries IN
       /\ Len(entries) = 1
       /\ entries[1].inventory_id = 1
       /\ entries[1].opening_stock = 1
       /\ entries[1].used = 2
    /\ inventory[1].quantity = 0

\* C7 (transfer atomicity): a successful transfer of Q from item A leaves A
\* exactly Q lower, and either the destination item named exactly Q higher or,
\* none being named, one new item of quantity Q in the destination project;
\* the quantities of A and of the destination add up as before.
C7_TransferAtomicity ==
    [][\A data \in Transfers :
         (transfer_material(data) /\ last'.result = "ok")
         => LET a == data.from_item_id
                Q == data.quantity
            IN  /\ inventory'[a].quantity = inventory[a].quantity - Q
                /\ IF data.to_item_id # <<>>
                   THEN LET b == data.to_item_id[1] IN
                        /\ Len(inventory') = Len(inventory)
                        /\ inventory'[b].quantity = inventory[b].quantity + Q
                        /\ inventory'[a].quantity + inventory'[b].quantity
                             = inventory[a].quantity + inventory[b].quantity
                   ELSE LET b == Len(inventory') IN
                        /\ Len(inventory') = Len(inventory) + 1
                        /\ inventory'[b].quantity = Q
                        /\ inventory'[b].project_id = data.to_project_id
                        /\ inventory'[a].quantity + inventory'[b].quantity
                             = inventory[a].quantity]_vars

\* Whether report d[i] is of the project and lists the item.
Lists(d, i, project_id, inventory_id) ==
    /\ d[i].project_id = project_id
    /\ FirstEntry(d[i].material_stock_entries, inventory_id) # 0

\* Reports i and j are on consecutive recorded dates for (project, item): both
\* list the item, i is dated before j, and no stored report of the project
\* that lists the item is dated between them.
ConsecutiveDates(d, i, j, project_id, inventory_id) ==
    /\ Lists(d, i, project_id, inventory_id)
    /\ Lists(d, j, project_id, inventory_id)
    /\ d[i].date < d[j].date
    /\ \A m \in 1..Len(d) :
         Lists(d, m, project_id, inventory_id)
           => ~(d[i].date < d[m].date /\ d[m].date < d[j].date)

\* The reports of (project, item) were submitted in the order of their dates:
\* each one is dated after all those stored before it.
SubmittedInDateOrder(d, project_id, inventory_id) ==
    \A i \in 1..Len(d), j \in 1..Len(d) :
        (i < j /\ Lists(d, i, project_id, inventory_id)
               /\ Lists(d, j, project_id, inventory_id))
          => d[i].date < d[j].date

\* C8 as claimed (chain integrity in any order of submission): for any two
\* stored entries of the same (project, item) on consecutive recorded dates
\* D1 < D2, the opening stock of the D2 entry is the closing stock of the D1
\* entry (the first one for the item, should the D1 report list it twice).
C8_ChainIntegrityAnyOrder ==
    \A project_id \in Projects, inventory_id \in ItemIds :
        \A i \in 1..Len(dprs), j \in 1..Len(dprs) :
            ConsecutiveDates(dprs, i, j, project_id, inventory_id)
              => \A b \in 1..Len(dprs[j].material_stock_entries) :
                    dprs[j].material_stock_entries[b].inventory_id = inventory_id
                      => dprs[j].material_stock_entries[b].opening_stock
                           = dprs[i].material_stock_entries[
                               FirstEntry(dprs[i].material_stock_entries,
                                          inventory_id)].closing_stock

\* C8 as amended (chain integrity of reports submitted in date order): when
\* the reports of a (project, item) were submitted in the order of their
\* dates, every entry for the item in the report of D2 opens with the closing
\* stock of the first entry for the item in the report of D1.
C8_ChainIntegrityInOrder ==
    \A project_id \in Projects, inventory_id \in ItemIds :
        SubmittedInDateOrder(dprs, project_id, inventory_id)
          => \A i \in 1..Len(dprs), j \in 1..Len(dprs) :
                ConsecutiveDates(dprs, i, j, project_id, inventory_id)
                  => \A b \in 1..Len(dprs[j].material_stock_entries) :
                        dprs[j].material_stock_entries[b].inventory_id = inventory_id
                          => dprs[j].material_stock_entries[b].opening_stock
                               = dprs[i].material_stock_entries[
                                   FirstEntry(dprs[i].material_stock_entries,
                                              inventory_id)].closing_stock

\* Two reports of P1 in date order, both listing item 1: the first closed
\* above the ledger quantity, and the second opens with that closing stock,
\* not with the ledger quantity.
C8_Witness ==
    /\ Len(dprs) = 2
    /\ ConsecutiveDates(dprs, 1, 2, "P1", 1)
    /\ dprs[1].material_stock_entries[1].inventory_id = 1
    /\ dprs[1].material_stock_entries[1].closing_stock = MaxQty + 1
    /\ dprs[2].material_stock_entries[1].inventory_id = 1
    /\ dprs[2].material_stock_entries[1].opening_stock = MaxQty + 1
    /\ inventory[1].quantity < MaxQty

\* C9 (invalid reference): a create_grn on an order on file, with a line whose
\* po_item_index is outside 0..len(items)-1, answers with the invalid-index
\* error and stores nothing.
C9_InvalidReference ==
    [][\A grn_data \in GrnRequests :
         (/\ create_grn(grn_data)
          /\ grn_data.po_id \in DOMAIN purchase_orders
          /\ \E n \in 1..Len(grn_data.items) :
               grn_data.items[n].po_item_index
                 \notin 0..(Len(purchase_orders[grn_data.po_id].items) - 1))
         => (/\ last'.result = "invalid_index"
             /\ grns' = grns
             /\ inventory' = inventory)]_vars

\* C10 (single-line acceptance): a submission of one line q against line n of
\* an order, ordered O, of which R has been received so far, is accepted iff
\* R + q <= O; refused, the response reports O, R and O - R.
C10_SingleLineAcceptance ==
    [][\A grn_data \in GrnRequests :
         (/\ create_grn(grn_data)
          /\ grn_data.po_id \in DOMAIN purchase_orders
          /\ Len(grn_data.items) = 1
          /\ grn_data.items[1].po_item_index
               \in 0..(Len(purchase_orders[grn_data.po_id].items) - 1))
         => LET po == purchase_orders[grn_data.po_id]
                n  == grn_data.items[1].po_item_index + 1
                q  == grn_data.items[1].received_quantity
                O  == po.items[n].quantity
                R  == ReceivedOnLine(grns, 1, po, n)
            IN  /\ (last'.result = "ok") <=> (R + q <= O)
                /\ last'.result # "ok"
                     => (last'.result = "over_receipt"
                         /\ last'.info = <<O, R, O - R>>)]_vars

\* C11 (order of the transfer preconditions): a transfer is refused with the
\* error of the first precondition that fails, taken in the order source
\* exists, quantity > 0, source quantity >= quantity, projects differ; the
\* insufficient-stock error reports the available quantity and the unit; a
\* refused transfer changes nothing.
C11_TransferPreconditionOrder ==
    [][\A data \in StockTransfers :
         (last'.op = "transfer_material" /\ transfer_material(data))
         => LET exists    == data.from_item_id \in 1..Len(inventory)
                positive  == data.quantity > 0
                source    == inventory[data.from_item_id]
                refused   == last'.result \in {"not_found", "invalid_quantity",
                                               "insufficient_stock", "same_project"}
            IN  /\ ~exists => last'.result = "not_found"
                /\ (exists /\ ~positive) => last'.result = "invalid_quantity"
                /\ (exists /\ positive /\ source.quantity < data.quantity)
                     => (/\ last'.result = "insufficient_stock"
                         /\ last'.info = <<source.quantity, source.unit>>)
                /\ (exists /\ positive /\ source.quantity >= data.quantity
                           /\ source.project_id = data.to_project_id)
                     => last'.result = "same_project"
                /\ (exists /\ positive /\ source.quantity >= data.quantity
                           /\ source.project_id # data.to_project_id)
                     => ~refused
                /\ refused => inventory' = inventory]_vars

\* A transfer of 2 within the project of an item holding 1: refused for the
\* stock, not for the project, with 1 Bags reported as available.
C11_Witness ==
    /\ last.op = "transfer_material"
    /\ last.result = "insufficient_stock"
    /\ last.info = <<1, "Bags">>
    /\ Len(inventory) >= 1
    /\ \A i \in 1..Len(inventory) : inventory[i].project_id = last.arg

\* C12 (a failed ledger sync does not fail the GRN): a create_grn whose GRN
\* has been stored answers its caller with success, also when the sync of one
\* of its lines failed.
C12_SyncFailureKeepsSuccess ==
    [][(last'.op = "create_grn" /\ Len(grns') = Len(grns) + 1)
         => last'.result = "ok"]_vars

\* The items of a ledger that are in the order's project and carry the
\* description of line `line` of the order, case ignored.
NamedAs(inv, po, line) ==
    {i \in 1..Len(inv) : /\ inv[i].project_id = po.project_id
                         /\ Lower(inv[i].item_name) = Lower(po.items[line].description)}

\* The lines of the order that the lines of a GRN refer to.
LinesOf(grn, po) ==
    {ReferencedLine(po, grn.items[n].po_item_index) : n \in 1..Len(grn.items)}

MostRecentBefore(d, project_id, inventory_id, date) ==
    {i \in 1..Len(d) :
        /\ Lists(d, i, project_id, inventory_id)
        /\ d[i].date < date
        /\ \A j \in 1..Len(d) :
              (Lists(d, j, project_id, inventory_id) /\ d[j].date < date)
                => d[j].date <= d[i].date}

\* C14 (resolution of opening and closing stock): every material line of a
\* report created for date D opens with the closing stock of the item's
\* (first) entry in a most recent stored report of the project dated before
\* D, or, there being none, with the item's ledger quantity as it was before
\* the report; and closes with max(0, opening + received - used).
C14_OpeningClosingResolution ==
    [][(last'.op = "create_dpr")
         => LET dpr == dprs'[Len(dprs')] IN
            \A b \in 1..Len(dpr.material_stock_entries) :
               LET entry == dpr.material_stock_entries[b]
                   prior == MostRecentBefore(dprs, dpr.project_id,
                                             entry.inventory_id, dpr.date)
               IN  /\ prior # {}
                        => \E i \in prior :
                              entry.opening_stock
                                = dprs[i].material_stock_entries[
                                     FirstEntry(dprs[i].material_stock_entries,
                                                entry.inventory_id)].closing_stock
                   /\ (prior = {} /\ entry.inventory_id \in 1..Len(inventory))
                        => entry.opening_stock = inventory[entry.inventory_id].quantity
                   /\ entry.closing_stock
                        = Max(0, entry.opening_stock + entry.received - entry.used)]_vars

\* The trace of the claim, scaled: ledger 3 and no earlier entry, received 2,
\* used 1: opening 3, closing 4 (ledger 2); a later report with received 0,
\* used 5 opens with 4 and closes at 0.
C14_Witness ==
    /\ Len(dprs) = 2
    /\ dprs[1].project_id = "P1" /\ dprs[2].project_id = "P1"
    /\ dprs[1].date < dprs[2].date
    /\ dprs[1].material_stock_entries
         = <<[inventory_id |-> 1, received |-> 2, used |-> 1,
              opening_stock |-> MaxQty, closing_stock |-> MaxQty + 1]>>
    /\ dprs[2].material_stock_entries
         = <<[inventory_id |-> 1, received |-> 0, used |-> 5,
              opening_stock |-> MaxQty + 1, closing_stock |-> 0]>>

\* The positions of the material lines of a report that name the item.
LinesFor(dpr, inventory_id) ==
    {b \in 1..Len(dpr.material_stock_entries) :
        dpr.material_stock_entries[b].inventory_id = inventory_id}

\* C15 (usage deduction): a report whose one material line for an item has
\* used > 0 sets the item's quantity to max(0, current - used) and recomputes
\* total_value and status; a report whose lines for the item use nothing, or
\* that has no line for it, leaves the item as it was.  Received, opening and
\* closing stock of the line play no part.
C15_UsageDeduction ==
    [][(last'.op = "create_dpr")
         => LET dpr == dprs'[Len(dprs')] IN
            \A k \in 1..Len(inventory) :
               LET lines == LinesFor(dpr, k) IN
               /\ (\A b \in lines : dpr.material_stock_entries[b].used <= 0)
                    => inventory'[k] = inventory[k]
               /\ \A b \in lines :
                    (lines = {b} /\ dpr.material_stock_entries[b].used > 0)
                      => LET new_qty == Max(0, inventory[k].quantity
                                               - dpr.material_stock_entries[b].used)
                         IN  /\ inventory'[k].quantity = new_qty
                             /\ inventory'[k].total_value
                                  = new_qty * inventory[k].unit_price
                             /\ inventory'[k].status
                                  = _inv_status(new_qty, inventory[k].minimum_quantity)]_vars

\* The example of the claim, scaled: ledger 3, a line with received 2 and
\* used 1 (opening 3, closing 4): the ledger holds 2, not 4.
C15_Witness ==
    /\ last.op = "create_dpr"
    /\ Len(dprs) = 1
    /\ dprs[1].material_stock_entries
         = <<[inventory_id |-> 1, received |-> 2, used |-> 1,
              opening_stock |-> MaxQty, closing_stock |-> MaxQty + 1]>>
    /\ inventory[1].quantity = MaxQty - 1
    /\ inventory[1].total_value = (MaxQty - 1) * inventory[1].unit_price
    /\ inventory[1].status = "in_stock"

\* C16 (one deduction per item per report): a create_dpr leaves every item
\* either as it was or lower by one of the used amounts the report lists for
\* it (stopping at zero), however often the report lists the item.
C16_OneDeductionPerItem ==
    [][(last'.op = "create_dpr")
         => LET dpr == dprs'[Len(dprs')] IN
            \A k \in 1..Len(inventory) :
               \/ inventory'[k].quantity = inventory[k].quantity
               \/ \E b \in LinesFor(dpr, k) :
                     inventory'[k].quantity
                       = Max(0, inventory[k].quantity
                                - dpr.material_stock_entries[b].used)]_vars

\* C17 (GRNs are append-only): every step leaves the stored GRNs in place,
\* unmodified and in their order; it may only add one after them.
C17_GrnAppendOnly ==
    [][/\ Len(grns') >= Len(grns)
       /\ SubSeq(grns', 1, Len(grns)) = grns]_vars

\* C18 (receipt numbers are sequential): of any two stored GRNs, the one
\* accepted later carries the greater number; so no two share a number.
C18_SequentialNumbers ==
    \A i \in 1..Len(grns), j \in 1..Len(grns) :
        i < j => grns[i].grn_number < grns[j].grn_number

\* The handlers whose insert_one has run.
Stored == {h \in Handlers : inflight[h].pc \in {"stored", "done"}
                              /\ inflight[h].result \in {"", "ok"}}

RECURSIVE SumSubmitted(_, _)
\* What the handlers of H have submitted on the PO line po_item_index.
SumSubmitted(H, po_item_index) ==
    IF H = {} THEN 0
    ELSE LET h == CHOOSE x \in H : TRUE
         IN  SumReceived(inflight[h].data[1].items, 1, po_item_index)
             + SumSubmitted(H \ {h}, po_item_index)

\* C19 (concurrent submissions on one PO line): a submission that passed the
\* over-receipt check on the GRNs it had read is persisted whatever has been
\* stored since, so the persisted received total of a line is the sum of all
\* the submissions that reached their insert, never cut to the ordered
\* quantity.
C19_CheckedSubmissionsPersist ==
    \A po_item_index \in 0..1 :
        TotalReceived(grns, 1, "po1", po_item_index)
            = SumSubmitted(Stored, po_item_index)

\* Both submissions read the same already-received total (none), each is
\* within the ordered quantity on its own, both are on file, and the line's
\* persisted total exceeds what was ordered.
C19_Witness ==
    /\ Stored = Handlers
    /\ \A h \in Handlers :
          /\ inflight[h].existing_grns = <<>>
          /\ SumReceived(inflight[h].data[1].items, 1, 0)
                <= purchase_orders["po1"].items[1].quantity
    /\ Len(grns) = 2
    /\ TotalReceived(grns, 1, "po1", 0) > purchase_orders["po1"].items[1].quantity

\* The handlers whose deduction from the source has been written.
Deducted == {h \in Handlers :
                \/ inflight[h].pc \in {"deducted", "dest_read"}
                \/ /\ inflight[h].pc = "done"
                   /\ inflight[h].result \in {"ok", "destination_not_found"}
                   /\ inflight[h].source # <<>>}

RECURSIVE Delivered(_, _)
\* The quantity the documents inv[n..] hold in the destination project P2.
Delivered(inv, n) ==
    IF n > Len(inv) THEN 0
    ELSE (IF inv[n].project_id = "P2" THEN inv[n].quantity ELSE 0)
         + Delivered(inv, n + 1)

\* C20 (concurrent transfers from one source): a transfer that passed the
\* sufficient-stock check on the source document it had read deducts from
\* that reading, whatever has been written since; so once transfers have
\* deducted, the source holds what one of them computed (the quantity it
\* read less its own), and deductions made from the same reading do not
\* add up.
C20_DeductionsFromReading ==
    Deducted # {} =>
        inventory[1].quantity \in
            {inflight[h].source[1].quantity - inflight[h].data[1].quantity
                : h \in Deducted}

\* Both transfers read the source at SourceQuantity, each asks for no more
\* than that and together for more, both succeed, and the destination
\* project holds more than the source has lost.
C20_Witness ==
    /\ \A h \in Handlers :
          /\ inflight[h].pc = "done" /\ inflight[h].result = "ok"
          /\ inflight[h].source # <<>>
          /\ inflight[h].source[1].quantity = SourceQuantity
          /\ inflight[h].data[1].quantity <= SourceQuantity
    /\ inflight[1].data[1].quantity + inflight[2].data[1].quantity > SourceQuantity
    /\ Delivered(inventory, 1) > SourceQuantity - inventory[1].quantity
    /\ inventory[1].quantity >= 0

\* C21 (audit is fire-and-forget): whenever the controller of a mutating
\* route has succeeded, the caller gets a success response, whether or not
\* the audit entry could be built and written.
C21_AuditNeverBreaksTheOperation ==
    [][(last'.result = "ok" /\ last'.op # "init"
        /\ <<inventory, grns, dprs, last>>' # <<inventory, grns, dprs, last>>)
       => response' = "success"]_vars

\* C22 (stock status classifier): for every quantity and minimum, the status
\* is out_of_stock when quantity <= 0, low_stock when 0 < quantity <= minimum
\* and minimum > 0, and in_stock otherwise; so 5 with minimum 10 is low_stock,
\* 0 is out_of_stock and 20 is in_stock.
C22_StatusClassifier ==
    last.op = "_compute_status" =>
        LET quantity         == last.info[1]
            minimum_quantity == last.info[2]
        IN  /\ quantity <= 0 => last.result = "out_of_stock"
            /\ (0 < quantity /\ quantity <= minimum_quantity /\ minimum_quantity > 0)
                  => last.result = "low_stock"
            /\ (quantity > 0 /\ ~(quantity <= minimum_quantity /\ minimum_quantity > 0))
                  => last.result = "in_stock"
            /\ last.result \in {"out_of_stock", "low_stock", "in_stock"}
            /\ (quantity = 5 /\ minimum_quantity = 10) => last.result = "low_stock"
            /\ quantity = 0 => last.result = "out_of_stock"
            /\ (quantity = 20 /\ minimum_quantity = 10) => last.result = "in_stock"

\* The classifier has been applied to quantity 5 with minimum 10.
C22_Witness ==
    /\ last.op = "_compute_status"
    /\ last.info = <<5, 10>>
    /\ last.result = "low_stock"

\* C30 (the three classifiers agree): whichever copy has classified a pair
\* (quantity, minimum_quantity), the two other copies return the same status
\* for it.
C30_ClassifiersAgree ==
    last.op \in {"_compute_status", "_inventory_status", "_inv_status"} =>
        /\ last.result = _compute_status(last.info[1], last.info[2])
        /\ last.result = _inventory_status(last.info[1], last.info[2])
        /\ last.result = _inv_status(last.info[1], last.info[2])

\* The project controller's copy has classified an empty stock with a
\* minimum set.
C30_Witness ==
    /\ last.op = "_inv_status"
    /\ last.info = <<0, 10>>
    /\ last.result = "out_of_stock"

\* The equipment entries of a report that name the item and have hours > 0.
UsedFor(dpr_data, inventory_id) ==
    {n \in 1..Len(dpr_data.equipment_entries) :
        /\ dpr_data.equipment_entries[n].inventory_id = inventory_id
        /\ dpr_data.equipment_entries[n].total_used_hours > 0}

\* The material lines of a report that name the item.
ListedFor(dpr_data, inventory_id) ==
    {n \in 1..Len(dpr_data.material_stock_entries) :
        dpr_data.material_stock_entries[n].inventory_id = inventory_id}

\* C23 (equipment entries): a report marks an item in_use exactly when one of
\* its equipment entries names the item with hours > 0; an entry with hours
\* <= 0 marks nothing; and the equipment entries leave the item's quantity,
\* total_value and status as they were (an item that no material line of the
\* report names keeps all three).
C23_EquipmentFrame ==
    [][\A dpr_data \in EquipmentDprs :
          (last'.op = "create_dpr" /\ Len(dprs') = Len(dprs) + 1 /\ create_dpr(dpr_data))
          => \A k \in 1..Len(inventory) :
                /\ inventory'[k].equipment_status =
                      IF UsedFor(dpr_data, k) # {} THEN "in_use"
                      ELSE inventory[k].equipment_status
                /\ ListedFor(dpr_data, k) = {} =>
                      /\ inventory'[k].quantity = inventory[k].quantity
                      /\ inventory'[k].total_value = inventory[k].total_value
                      /\ inventory'[k].status = inventory[k].status]_vars

\* A report has marked the steel item in_use and its quantity, value and
\* status are those of the initial ledger.
C23_Witness ==
    /\ Len(dprs) >= 1
    /\ inventory[2].equipment_status = "in_use"
    /\ inventory[1].equipment_status = None
    /\ inventory[2].quantity = 1
    /\ inventory[2].total_value = 0
    /\ inventory[2].status = _compute_status(1, 0)

\* The stored reports of the project and date of `dpr` that list the item.
SameDay(d, dpr, inventory_id) ==
    {i \in 1..Len(d) : /\ Lists(d, i, dpr.project_id, inventory_id)
                       /\ d[i].date = dpr.date}

\* C24 (duplicate same-day reports): no report is refused, whatever is on
\* file; and a report for a project, date and item that a stored report
\* already covers is stored as well, opens with the closing stock of the
\* latest report dated strictly before it (or, there being none, with the
\* ledger quantity) whatever the stored same-day report closed with, and has
\* its used quantity deducted from the ledger again.
C24_SameDayDuplicate ==
    [][/\ \A dpr_data \in SameDayDprs :
             Len(dprs) < MaxDprs => ENABLED create_dpr(dpr_data)
       /\ (last'.op = "create_dpr")
            => LET dpr == dprs'[Len(dprs')] IN
               \A b \in 1..Len(dpr.material_stock_entries) :
                  LET entry == dpr.material_stock_entries[b]
                      k     == entry.inventory_id
                      prior == MostRecentBefore(dprs, dpr.project_id, k, dpr.date)
                  IN  SameDay(dprs, dpr, k) # {}
                      => /\ last'.result = "ok"
                         /\ dprs' = Append(dprs, dpr)
                         /\ prior # {}
                              => \E i \in prior :
                                    entry.opening_stock
                                      = dprs[i].material_stock_entries[
                                           FirstEntry(dprs[i].material_stock_entries,
                                                      k)].closing_stock
                         /\ prior = {} => entry.opening_stock = inventory[k].quantity
                         /\ (LinesFor(dpr, k) = {b} /\ entry.used > 0)
                              => inventory'[k].quantity
                                   = Max(0, inventory[k].quantity - entry.used)]_vars

\* Two reports of the same project, date and item are on file: the first
\* closed at 4, the second opened with the ledger quantity 2 and not with 4,
\* and the ledger has been deducted twice.
C24_Witness ==
    /\ Len(dprs) = 2
    /\ dprs[1].project_id = dprs[2].project_id
    /\ dprs[1].date = dprs[2].date
    /\ dprs[1].material_stock_entries
         = <<[inventory_id |-> 1, received |-> 2, used |-> 1,
              opening_stock |-> MaxQty, closing_stock |-> MaxQty + 1]>>
    /\ dprs[2].material_stock_entries[1].inventory_id = 1
    /\ dprs[2].material_stock_entries[1].opening_stock = MaxQty - 1
    /\ inventory[1].quantity = MaxQty - 2

\* C25 (a failed transfer changes nothing): every transfer_material that
\* answers with an error, whichever it is, leaves every inventory item as it
\* was before the call.
C25_FailedTransferChangesNothing ==
    [][(last'.op = "transfer_material" /\ last'.result # "ok")
         => inventory' = inventory]_vars

\* C26 (a transfer crosses projects): after a successful transfer_material,
\* an item whose quantity has grown is not of the project of the item whose
\* quantity has dropped: no transfer adds to an item of the source's own
\* project.
C26_DestinationInOtherProject ==
    [][(last'.op = "transfer_material" /\ last'.result = "ok")
         => \A k \in 1..Len(inventory), source \in 1..Len(inventory) :
               (/\ inventory'[k].quantity > inventory[k].quantity
                /\ inventory'[source].quantity < inventory[source].quantity)
               => inventory[k].project_id # inventory[source].project_id]_vars

\* C27 (no negative quantity under interleaving): whatever the order of the
\* reads and writes of concurrent transfers, subtractions and report
\* deductions on an item, every stored quantity stays at or above zero.
C27_NeverNegative ==
    \A k \in 1..Len(inventory) : inventory[k].quantity >= 0

\* A transfer and a subtraction have both read item 1 at SourceQuantity, ask
\* together for more than that, and have both succeeded.
C27_Witness ==
    \E h \in Handlers, g \in Handlers :
        /\ inflight[h].pc = "done" /\ inflight[h].result = "ok"
        /\ inflight[g].pc = "done" /\ inflight[g].result = "ok"
        /\ inflight[h].source # <<>>
        /\ inflight[h].source[1].quantity = SourceQuantity
        /\ inflight[g].existing # <<>>
        /\ inflight[g].existing[1].quantity = SourceQuantity
        /\ inflight[h].data[1].quantity + inflight[g].data[1].quantity > SourceQuantity
        /\ inventory[1].quantity >= 0

\* The ledger items of project P1 named "cement", whatever the case.
CementOfP1 ==
    {i \in 1..Len(inventory) : /\ inventory[i].project_id = "P1"
                               /\ Lower(inventory[i].item_name) = "cement"}

\* C28 (concurrent receipts of one item): once two accepted create_grn for
\* the same description and project have both finished, the ledger holds
\* exactly one item of that name, and it has grown by the sum of the two
\* received quantities.
C28_ConcurrentSyncMerges ==
    (\A h \in Handlers : inflight[h].pc = "done" /\ inflight[h].result = "ok")
      => /\ Cardinality(CementOfP1) = 1
         /\ \A i \in CementOfP1 :
               inventory[i].quantity
                 = inflight[1].data[1].items[1].received_quantity
                   + inflight[2].data[1].items[1].received_quantity

\* C29 (one item per project and name): no two inventory items have the same
\* project and the same name ignoring case.
C29_UniqueNamePerProject ==
    \A i \in 1..Len(inventory), j \in 1..Len(inventory) :
        (/\ inventory[i].project_id = inventory[j].project_id
         /\ Lower(inventory[i].item_name) = Lower(inventory[j].item_name))
        => i = j
====
